---- MODULE Spec2Model ----
(***************************************************************************)
(* Hardware-context layer of axcpu: TrapFrame argument accessors, the      *)
(* FP/SIMD state save/restore routines, TaskContext::new/init/             *)
(* set_page_table_root/switch_to and the raw context_switch routine, for   *)
(* the aarch64 and loongarch64 backends.                                   *)
(*                                                                         *)
(* Memory is modelled at the granularity the assembly addresses it:        *)
(* TaskContext as 8-byte slots, aarch64 FpState as 32 sixteen-byte         *)
(* register cells followed by four 4-byte words (fpcr, fpsr and the        *)
(* 8 bytes of tail padding that align(16) adds).  A 64-bit scratch         *)
(* register that carries a 32-bit system register is a pair <<lo, hi>>     *)
(* of 32-bit halves.                                                       *)
(***************************************************************************)
EXTENDS Integers, Sequences, FiniteSets, TLC

VARIABLES arch, feat, cpu, ctx, cur, life, args, snap, last,
          tf, ret, fps, fpg, hist, cores, bx

vars == <<arch, feat, cpu, ctx, cur, life, args, snap, last, tf, ret, fps, fpg,
          hist, cores, bx>>

(***************************************************************************)
(* Bounds of the model.                                                    *)
(***************************************************************************)
MaxPat == 1        \* sentinel fillings 0..MaxPat of the live registers
MaxVal == 1        \* entry / kstack_top / tls_area / root inputs are 0..MaxVal

Archs == {"aarch64", "loongarch64"}
\* switch_to works on a pair of contexts: 1 is the bootstrap task's, 2 a created task's
CtxIds == {1, 2}
Vals == 0..MaxVal
Pats == 0..MaxPat
Features == [tls : BOOLEAN, fp : BOOLEAN, uspace : BOOLEAN]

Range(s) == {s[i] : i \in 1..Len(s)}
IndexOf(s, x) == CHOOSE i \in 1..Len(s) : s[i] = x

(***************************************************************************)
(* Register files.                                                         *)
(***************************************************************************)
\* aarch64: the callee-saved general registers, the link register and sp.
GprA64 == <<"x19", "x20", "x21", "x22", "x23", "x24", "x25", "x26", "x27",
            "x28", "x29", "x30", "sp">>
\* loongarch64: ra, sp, the static registers s0..s8 and fp.
GprLA == <<"ra", "sp", "s0", "s1", "s2", "s3", "s4", "s5", "s6", "s7", "s8",
           "fp">>
Gpr(a) == IF a = "aarch64" THEN GprA64 ELSE GprLA
RaReg(a) == IF a = "aarch64" THEN "x30" ELSE "ra"

VIdx == 0..31
FccIdx == 0..7

(***************************************************************************)
(* TaskContext layout (#[repr(C)], 8-byte slots in declaration order).     *)
(***************************************************************************)
TaskContextA64 == <<"sp", "tpidr_el0", "r19", "r20", "r21", "r22", "r23",
                    "r24", "r25", "r26", "r27", "r28", "r29", "lr">>
TaskContextLA == <<"ra", "sp", "s0", "s1", "s2", "s3", "s4", "s5", "s6",
                   "s7", "s8", "s9", "tp">>
Layout(a) == IF a = "aarch64" THEN TaskContextA64 ELSE TaskContextLA
\* slot index (0-based) of a named field
SlotOf(a, f) == IndexOf(Layout(a), f) - 1
FieldAt(a, i) == Layout(a)[i + 1]
Slots(a) == 0..(Len(Layout(a)) - 1)
RaField(a) == IF a = "aarch64" THEN "lr" ELSE "ra"
TpField(a) == IF a = "aarch64" THEN "tpidr_el0" ELSE "tp"
RootField(a) == IF a = "aarch64" THEN "ttbr0_el1" ELSE "pgdl"
FpField(a) == IF a = "aarch64" THEN "fp_state" ELSE "fpu"

(***************************************************************************)
(* Extended register state.                                                *)
(***************************************************************************)
\* byte offsets of the 4-byte words that follow regs in aarch64 FpState:
\* fpcr at 512, fpsr at 516, tail padding at 520 and 524.
FpTailA64 == {512, 516, 520, 524}
\* size_of::<FpState>() under #[repr(C, align(16))]: regs: [u128; 32], fpcr: u32,
\* fpsr: u32, rounded up to the alignment
AlignUp(n, al) == ((n + al - 1) \div al) * al
SizeOfFpState == AlignUp(32 * 16 + 4 + 4, 16)
\* FpState::default(); the padding bytes are not initialised by it.
FpStateDefault(pad) ==
    [regs |-> [i \in VIdx |-> 0],
     w |-> [o \in FpTailA64 |-> IF o \in {512, 516} THEN 0 ELSE pad]]
\* FpuState::default()
FpuStateDefault == [fp |-> [i \in VIdx |-> 0], fcc |-> [i \in FccIdx |-> 0], fcsr |-> 0]
ExtDefault(a, pad) == IF a = "aarch64" THEN FpStateDefault(pad) ELSE FpuStateDefault

(***************************************************************************)
(* TaskContext::new()                                                      *)
(***************************************************************************)
new(a, pad) == [slot |-> [i \in Slots(a) |-> 0], root |-> 0, ext |-> ExtDefault(a, pad)]

init_entry_stack_swapped(a, c, entry, kstack_top, tls_area) ==
    [c EXCEPT !.slot = [@ EXCEPT ![SlotOf(a, "sp")] = entry,
                                 ![SlotOf(a, RaField(a))] = kstack_top,
                                 ![SlotOf(a, TpField(a))] = tls_area]]

init_sets_frame_pointer(a, c, entry, kstack_top, tls_area) ==
    [c EXCEPT !.slot = [@ EXCEPT ![SlotOf(a, "sp")] = kstack_top,
                                 ![SlotOf(a, RaField(a))] = entry,
                                 ![SlotOf(a, TpField(a))] = tls_area,
                                 ![SlotOf(a, IF a = "aarch64" THEN "r29" ELSE "s9")]
                                     = kstack_top]]

\* TaskContext::init(entry, kstack_top, tls_area)
init(a, c, entry, kstack_top, tls_area) ==
    [c EXCEPT !.slot = [@ EXCEPT ![SlotOf(a, "sp")] = kstack_top,
                                 ![SlotOf(a, RaField(a))] = entry,
                                 ![SlotOf(a, TpField(a))] = tls_area]]

\* TaskContext::set_page_table_root(root)
set_page_table_root(c, root) == [c EXCEPT !.root = root]

(***************************************************************************)
(* TrapFrame and its argument accessors.                                   *)
(***************************************************************************)
\* loongarch64 GeneralRegisters, in declaration order
GeneralRegisters ==
    <<"zero", "ra", "tp", "sp", "a0", "a1", "a2", "a3", "a4", "a5", "a6", "a7",
      "t0", "t1", "t2", "t3", "t4", "t5", "t6", "t7", "t8", "u0", "fp", "s0",
      "s1", "s2", "s3", "s4", "s5", "s6", "s7", "s8">>
RIdx == 0..30

\* aarch64 TrapFrame::arg0 .. arg5
arg0_a64(f) == f.r[0]
arg1_a64(f) == f.r[1]
arg2_a64(f) == f.r[2]
arg3_a64_next_reg(f) == f.r[4]
arg3_a64(f) == f.r[3]
arg4_a64(f) == f.r[4]
arg5_a64(f) == f.r[5]

\* loongarch64 TrapFrame::arg0 .. arg5
arg0_la(f) == f.regs.a0
arg1_la(f) == f.regs.a1
arg2_la(f) == f.regs.a2
arg3_la(f) == f.regs.a3
arg4_la(f) == f.regs.a4
arg5_la(f) == f.regs.a5

\* tf.argN()
argN(a, n, f) ==
    IF a = "aarch64"
    THEN CASE n = 0 -> arg0_a64(f) [] n = 1 -> arg1_a64(f) [] n = 2 -> arg2_a64(f)
           [] n = 3 -> arg3_a64(f) [] n = 4 -> arg4_a64(f) [] n = 5 -> arg5_a64(f)
    ELSE CASE n = 0 -> arg0_la(f) [] n = 1 -> arg1_la(f) [] n = 2 -> arg2_la(f)
           [] n = 3 -> arg3_la(f) [] n = 4 -> arg4_la(f) [] n = 5 -> arg5_la(f)

(***************************************************************************)
(* The raw transfer: context_switch(_current_task, _next_task).            *)
(* A machine state m holds the live general registers (reg), the slots of  *)
(* the two TaskContext objects addressed by the argument registers (mem),  *)
(* and the sets of slots loaded (rd) and stored (wr), as <<object, slot>>. *)
(***************************************************************************)
\* first argument register -> _current_task, second -> _next_task
MemOf(base) == IF base \in {"x0", "a0"} THEN "cur" ELSE "nxt"

I3(op, a, b, base, off) == [op |-> op, a |-> a, b |-> b, base |-> base, off |-> off]

context_switch_prog_a64_wrong_dest ==
    << I3("stp", "x29", "x30", "x0", 12 * 8),
       I3("stp", "x27", "x28", "x0", 10 * 8),
       I3("stp", "x25", "x26", "x0", 8 * 8),
       I3("stp", "x23", "x24", "x0", 6 * 8),
       I3("stp", "x21", "x22", "x0", 4 * 8),
       I3("stp", "x19", "x20", "x0", 2 * 8),
       I3("mov", "x19", "sp", "", 0),
       I3("stp", "x19", "x20", "x1", 0),
       I3("ldp", "x19", "x20", "x1", 0),
       I3("mov", "sp", "x19", "", 0),
       I3("ldp", "x19", "x20", "x1", 2 * 8),
       I3("ldp", "x21", "x22", "x1", 4 * 8),
       I3("ldp", "x23", "x24", "x1", 6 * 8),
       I3("ldp", "x25", "x26", "x1", 8 * 8),
       I3("ldp", "x27", "x28", "x1", 10 * 8),
       I3("ldp", "x29", "x30", "x1", 12 * 8),
       I3("ret", "", "", "", 0) >>

context_switch_prog_a64_skips_reload ==
    << I3("stp", "x29", "x30", "x0", 12 * 8),
       I3("stp", "x27", "x28", "x0", 10 * 8),
       I3("stp", "x25", "x26", "x0", 8 * 8),
       I3("stp", "x23", "x24", "x0", 6 * 8),
       I3("stp", "x21", "x22", "x0", 4 * 8),
       I3("stp", "x19", "x20", "x0", 2 * 8),
       I3("mov", "x19", "sp", "", 0),
       I3("stp", "x19", "x20", "x0", 0),
       I3("ldp", "x19", "x20", "x1", 0),
       I3("mov", "sp", "x19", "", 0),
       I3("ldp", "x19", "x20", "x1", 2 * 8),
       I3("ldp", "x21", "x22", "x1", 4 * 8),
       I3("ldp", "x23", "x24", "x1", 6 * 8),
       I3("ldp", "x25", "x26", "x1", 8 * 8),
       I3("ldp", "x29", "x30", "x1", 12 * 8),
       I3("ret", "", "", "", 0) >>

\* aarch64 context_switch, one record per instruction, offsets in bytes
context_switch_prog_a64 ==
    << I3("stp", "x29", "x30", "x0", 12 * 8),
       I3("stp", "x27", "x28", "x0", 10 * 8),
       I3("stp", "x25", "x26", "x0", 8 * 8),
       I3("stp", "x23", "x24", "x0", 6 * 8),
       I3("stp", "x21", "x22", "x0", 4 * 8),
       I3("stp", "x19", "x20", "x0", 2 * 8),
       I3("mov", "x19", "sp", "", 0),
       I3("stp", "x19", "x20", "x0", 0),
       I3("ldp", "x19", "x20", "x1", 0),
       I3("mov", "sp", "x19", "", 0),
       I3("ldp", "x19", "x20", "x1", 2 * 8),
       I3("ldp", "x21", "x22", "x1", 4 * 8),
       I3("ldp", "x23", "x24", "x1", 6 * 8),
       I3("ldp", "x25", "x26", "x1", 8 * 8),
       I3("ldp", "x27", "x28", "x1", 10 * 8),
       I3("ldp", "x29", "x30", "x1", 12 * 8),
       I3("ret", "", "", "", 0) >>

\* loongarch64 context_switch; STD/LDD take a slot index
context_switch_prog_la ==
    << I3("STD", "ra", "", "a0", 0),
       I3("STD", "sp", "", "a0", 1),
       I3("STD", "s0", "", "a0", 2),
       I3("STD", "s1", "", "a0", 3),
       I3("STD", "s2", "", "a0", 4),
       I3("STD", "s3", "", "a0", 5),
       I3("STD", "s4", "", "a0", 6),
       I3("STD", "s5", "", "a0", 7),
       I3("STD", "s6", "", "a0", 8),
       I3("STD", "s7", "", "a0", 9),
       I3("STD", "s8", "", "a0", 10),
       I3("STD", "fp", "", "a0", 11),
       I3("LDD", "fp", "", "a1", 11),
       I3("LDD", "s8", "", "a1", 10),
       I3("LDD", "s7", "", "a1", 9),
       I3("LDD", "s6", "", "a1", 8),
       I3("LDD", "s5", "", "a1", 7),
       I3("LDD", "s4", "", "a1", 6),
       I3("LDD", "s3", "", "a1", 5),
       I3("LDD", "s2", "", "a1", 4),
       I3("LDD", "s1", "", "a1", 3),
       I3("LDD", "s0", "", "a1", 2),
       I3("LDD", "sp", "", "a1", 1),
       I3("LDD", "ra", "", "a1", 0),
       I3("ret", "", "", "", 0) >>

\* store one 8-byte register at slot k of the object addressed by base
Store8(m, base, k, r) ==
    [m EXCEPT !.mem[MemOf(base)][k] = m.reg[r],
              !.wr = @ \cup {<<MemOf(base), k>>}]
\* load one 8-byte register from slot k of the object addressed by base
Load8(m, base, k, r) ==
    [m EXCEPT !.reg[r] = m.mem[MemOf(base)][k],
              !.rd = @ \cup {<<MemOf(base), k>>}]

\* macro STD rd, base, idx  (st.d rd, base, idx*8)
STD(m, rd, base, idx) == Store8(m, base, idx, rd)
\* macro LDD rd, base, idx  (ld.d rd, base, idx*8)
LDD(m, rd, base, idx) == Load8(m, base, idx, rd)

\* effect of one instruction of a context_switch program
Exec(m, ins) ==
    CASE ins.op = "stp" ->
           Store8(Store8(m, ins.base, ins.off \div 8, ins.a),
                  ins.base, (ins.off \div 8) + 1, ins.b)
      [] ins.op = "ldp" ->
           Load8(Load8(m, ins.base, ins.off \div 8, ins.a),
                 ins.base, (ins.off \div 8) + 1, ins.b)
      [] ins.op = "mov" -> [m EXCEPT !.reg[ins.a] = m.reg[ins.b]]
      [] ins.op = "STD" -> STD(m, ins.a, ins.base, ins.off)
      [] ins.op = "LDD" -> LDD(m, ins.a, ins.base, ins.off)
      [] ins.op = "ret" -> m

\* bytes of a TaskContext one instruction touches: an x-register pair is
\* 2 * 8 bytes at the immediate offset, STD / LDD 8 bytes at slot index * 8
Access(ins) ==
    CASE ins.op \in {"stp", "ldp"} ->
           {[obj |-> "TaskContext", lo |-> ins.off, hi |-> ins.off + 2 * 8]}
      [] ins.op \in {"STD", "LDD"} ->
           {[obj |-> "TaskContext", lo |-> ins.off * 8, hi |-> ins.off * 8 + 8]}
      [] OTHER -> {}

RECURSIVE RunProg(_, _, _)
RunProg(m, prog, i) ==
    IF i > Len(prog) THEN m ELSE RunProg(Exec(m, prog[i]), prog, i + 1)

context_switch_prog(a) ==
    IF a = "aarch64" THEN context_switch_prog_a64 ELSE context_switch_prog_la

\* context_switch(current, next): the final machine state
context_switch(a, gpr, current, next) ==
    RunProg([reg |-> gpr, mem |-> [cur |-> current, nxt |-> next],
             rd |-> {}, wr |-> {}],
            context_switch_prog(a), 1)

(***************************************************************************)
(* aarch64 fpstate_save / fpstate_restore.                                 *)
(* A machine state holds the live V registers (v), FPCR and FPSR, the      *)
(* scratch registers x9/x10 as <<low 32 bits, high 32 bits>>, and the      *)
(* FpState object addressed by x0 (mem).                                   *)
(***************************************************************************)
F3(op, a, b, off) == [op |-> op, a |-> a, b |-> b, off |-> off]

fpstate_save_prog_fpsr_next_slot ==
    << F3("mrs", "x9", "fpcr", 0),
       F3("mrs", "x10", "fpsr", 0),
       F3("stpq", 0, 1, 0 * 16),
       F3("stpq", 2, 3, 2 * 16),
       F3("stpq", 4, 5, 4 * 16),
       F3("stpq", 6, 7, 6 * 16),
       F3("stpq", 8, 9, 8 * 16),
       F3("stpq", 10, 11, 10 * 16),
       F3("stpq", 12, 13, 12 * 16),
       F3("stpq", 14, 15, 14 * 16),
       F3("stpq", 16, 17, 16 * 16),
       F3("stpq", 18, 19, 18 * 16),
       F3("stpq", 20, 21, 20 * 16),
       F3("stpq", 22, 23, 22 * 16),
       F3("stpq", 24, 25, 24 * 16),
       F3("stpq", 26, 27, 26 * 16),
       F3("stpq", 28, 29, 28 * 16),
       F3("stpq", 30, 31, 30 * 16),
       F3("str", "x9", "", 64 * 8),
       F3("str", "x10", "", 66 * 8),
       F3("isb", "", "", 0),
       F3("ret", "", "", 0) >>

fpstate_save_prog ==
    << F3("mrs", "x9", "fpcr", 0),
       F3("mrs", "x10", "fpsr", 0),
       F3("stpq", 0, 1, 0 * 16),
       F3("stpq", 2, 3, 2 * 16),
       F3("stpq", 4, 5, 4 * 16),
       F3("stpq", 6, 7, 6 * 16),
       F3("stpq", 8, 9, 8 * 16),
       F3("stpq", 10, 11, 10 * 16),
       F3("stpq", 12, 13, 12 * 16),
       F3("stpq", 14, 15, 14 * 16),
       F3("stpq", 16, 17, 16 * 16),
       F3("stpq", 18, 19, 18 * 16),
       F3("stpq", 20, 21, 20 * 16),
       F3("stpq", 22, 23, 22 * 16),
       F3("stpq", 24, 25, 24 * 16),
       F3("stpq", 26, 27, 26 * 16),
       F3("stpq", 28, 29, 28 * 16),
       F3("stpq", 30, 31, 30 * 16),
       F3("str", "x9", "", 64 * 8),
       F3("str", "x10", "", 65 * 8),
       F3("isb", "", "", 0),
       F3("ret", "", "", 0) >>

fpstate_restore_prog_fpsr_field ==
    << F3("ldpq", 0, 1, 0 * 16),
       F3("ldpq", 2, 3, 2 * 16),
       F3("ldpq", 4, 5, 4 * 16),
       F3("ldpq", 6, 7, 6 * 16),
       F3("ldpq", 8, 9, 8 * 16),
       F3("ldpq", 10, 11, 10 * 16),
       F3("ldpq", 12, 13, 12 * 16),
       F3("ldpq", 14, 15, 14 * 16),
       F3("ldpq", 16, 17, 16 * 16),
       F3("ldpq", 18, 19, 18 * 16),
       F3("ldpq", 20, 21, 20 * 16),
       F3("ldpq", 22, 23, 22 * 16),
       F3("ldpq", 24, 25, 24 * 16),
       F3("ldpq", 26, 27, 26 * 16),
       F3("ldpq", 28, 29, 28 * 16),
       F3("ldpq", 30, 31, 30 * 16),
       F3("ldr", "x9", "", 64 * 8),
       F3("ldr", "x10", "", 64 * 8 + 4),
       F3("msr", "fpcr", "x9", 0),
       F3("msr", "fpsr", "x10", 0),
       F3("isb", "", "", 0),
       F3("ret", "", "", 0) >>

fpstate_restore_prog ==
    << F3("ldpq", 0, 1, 0 * 16),
       F3("ldpq", 2, 3, 2 * 16),
       F3("ldpq", 4, 5, 4 * 16),
       F3("ldpq", 6, 7, 6 * 16),
       F3("ldpq", 8, 9, 8 * 16),
       F3("ldpq", 10, 11, 10 * 16),
       F3("ldpq", 12, 13, 12 * 16),
       F3("ldpq", 14, 15, 14 * 16),
       F3("ldpq", 16, 17, 16 * 16),
       F3("ldpq", 18, 19, 18 * 16),
       F3("ldpq", 20, 21, 20 * 16),
       F3("ldpq", 22, 23, 22 * 16),
       F3("ldpq", 24, 25, 24 * 16),
       F3("ldpq", 26, 27, 26 * 16),
       F3("ldpq", 28, 29, 28 * 16),
       F3("ldpq", 30, 31, 30 * 16),
       F3("ldr", "x9", "", 64 * 8),
       F3("ldr", "x10", "", 65 * 8),
       F3("msr", "fpcr", "x9", 0),
       F3("msr", "fpsr", "x10", 0),
       F3("isb", "", "", 0),
       F3("ret", "", "", 0) >>

\* effect of one instruction of fpstate_save / fpstate_restore
\* (a q register is 16 bytes, an x register 8 bytes = two 4-byte words;
\*  mrs zero-extends the 32-bit system register, msr takes its low 32 bits)
FExec(m, ins) ==
    CASE ins.op = "mrs" -> [m EXCEPT !.x[ins.a] = <<m[ins.b], 0>>]
      [] ins.op = "msr" -> [m EXCEPT ![ins.a] = m.x[ins.b][1]]
      [] ins.op = "stpq" ->
           [m EXCEPT !.mem.regs[ins.off \div 16] = m.v[ins.a],
                     !.mem.regs[(ins.off \div 16) + 1] = m.v[ins.b]]
      [] ins.op = "ldpq" ->
           [m EXCEPT !.v[ins.a] = m.mem.regs[ins.off \div 16],
                     !.v[ins.b] = m.mem.regs[(ins.off \div 16) + 1]]
      [] ins.op = "str" ->
           [m EXCEPT !.mem.w[ins.off] = m.x[ins.a][1],
                     !.mem.w[ins.off + 4] = m.x[ins.a][2]]
      [] ins.op = "ldr" ->
           [m EXCEPT !.x[ins.a] = <<m.mem.w[ins.off], m.mem.w[ins.off + 4]>>]
      [] ins.op \in {"isb", "ret"} -> m

\* bytes of the FpState object one instruction touches: a q-register pair is
\* 2 * 16 bytes at the immediate offset, an x register 8 bytes
FAccess(ins) ==
    CASE ins.op \in {"stpq", "ldpq"} ->
           {[obj |-> "FpState", lo |-> ins.off, hi |-> ins.off + 2 * 16]}
      [] ins.op \in {"str", "ldr"} ->
           {[obj |-> "FpState", lo |-> ins.off, hi |-> ins.off + 8]}
      [] OTHER -> {}

RECURSIVE FRunProg(_, _, _)
FRunProg(m, prog, i) ==
    IF i > Len(prog) THEN m ELSE FRunProg(FExec(m, prog[i]), prog, i + 1)

FMachine(fx, state) ==
    [v |-> fx.v, fpcr |-> fx.fpcr, fpsr |-> fx.fpsr,
     x |-> [r \in {"x9", "x10"} |-> <<0, 0>>], mem |-> state]

\* fpstate_save(state): the FpState object afterwards
fpstate_save(fx, state) == FRunProg(FMachine(fx, state), fpstate_save_prog, 1).mem

\* fpstate_restore(state): the live FP/SIMD registers afterwards
fpstate_restore(fx, state) ==
    LET m == FRunProg(FMachine(fx, state), fpstate_restore_prog, 1)
    IN  [v |-> m.v, fpcr |-> m.fpcr, fpsr |-> m.fpsr]

(***************************************************************************)
(* loongarch64 save_fp_registers / restore_fp_registers.  The SAVE_ and    *)
(* RESTORE_ macros are defined outside the two source files; they are      *)
(* modelled by their contract (capture / write back the whole block).      *)
(***************************************************************************)
SAVE_FP(fx, state) == [state EXCEPT !.fp = fx.v]
SAVE_FCC(fx, state) == [state EXCEPT !.fcc = fx.fcc]
SAVE_FCSR(fx, state) == [state EXCEPT !.fcsr = fx.fcsr]
RESTORE_FP(fx, state) == [fx EXCEPT !.v = state.fp]
\* a condition-code register holds bit 0 of its byte
RESTORE_FCC(fx, state) == [fx EXCEPT !.fcc = [i \in FccIdx |-> state.fcc[i] % 2]]
RESTORE_FCSR(fx, state) == [fx EXCEPT !.fcsr = state.fcsr]

\* save_fp_registers(fpu): the FpuState object afterwards
save_fp_registers(fx, state) == SAVE_FCSR(fx, SAVE_FCC(fx, SAVE_FP(fx, state)))
\* restore_fp_registers(fpu): the live FPU registers afterwards
restore_fp_registers(fx, state) ==
    RESTORE_FCSR(RESTORE_FCC(RESTORE_FP(fx, state), state), state)

\* FpState::save / FpuState::save
ext_save(a, fx, state) ==
    IF a = "aarch64" THEN fpstate_save(fx, state) ELSE save_fp_registers(fx, state)
\* FpState::restore / FpuState::restore
ext_restore(a, fx, state) ==
    IF a = "aarch64" THEN fpstate_restore(fx, state) ELSE restore_fp_registers(fx, state)

(***************************************************************************)
(* Primitives of crate::asm used by switch_to (outside the source files).  *)
(***************************************************************************)
read_thread_pointer(c) == c.tp
write_thread_pointer(c, v) == [c EXCEPT !.tp = v]
write_user_page_table(c, root) == [c EXCEPT !.root = root]
write_kernel_sp(c, v) == [c EXCEPT !.ksp = v]

(***************************************************************************)
(* TaskContext::switch_to(&mut self, next_ctx).                            *)
(* A call state s holds the live CPU, the two contexts, the ordered log of *)
(* the steps performed, the number of root installs and TLB flushes, and   *)
(* the set rd of next_ctx's fields that were read, the save target as it   *)
(* was when the raw transfer began (xferPre) and the set wr of the save    *)
(* target's fields the raw transfer stored to.                             *)
(***************************************************************************)
Call(c, self, next) ==
    [cpu |-> c, self |-> self, next |-> next, log |-> <<>>,
     installs |-> 0, flushes |-> 0, rd |-> {}, xferPre |-> <<>>, wr |-> {}]

\* #[cfg(feature = "tls")] block
StepTls(a, s) ==
    LET k == SlotOf(a, TpField(a))
    IN  [s EXCEPT !.self.slot[k] = read_thread_pointer(s.cpu),
                  !.cpu = write_thread_pointer(s.cpu, s.next.slot[k]),
                  !.rd = @ \cup {TpField(a)},
                  !.log = Append(@, "tls")]

\* #[cfg(feature = "fp-simd")] block
StepFp(a, s) ==
    [s EXCEPT !.self.ext = ext_save(a, s.cpu.fx, s.self.ext),
              !.cpu.fx = ext_restore(a, s.cpu.fx, s.next.ext),
              !.rd = @ \cup {FpField(a)},
              !.log = Append(@, "fp")]

StepRoot_unconditional(a, s) ==
    [s EXCEPT !.cpu = write_user_page_table(s.cpu, s.next.root),
              !.installs = @ + 1,
              !.flushes = @ + 1,
              !.rd = @ \cup {RootField(a)},
              !.log = Append(@, "root")]

StepRoot_installs_self_root(a, s) ==
    IF s.self.root # s.next.root
    THEN [s EXCEPT !.cpu = write_user_page_table(s.cpu, s.self.root),
                   !.installs = @ + 1,
                   !.flushes = @ + 1,
                   !.rd = @ \cup {RootField(a)},
                   !.log = Append(@, "root")]
    ELSE [s EXCEPT !.rd = @ \cup {RootField(a)},
                   !.log = Append(@, "root")]

\* if self.root != next_ctx.root { write_user_page_table(next_ctx.root); flush_tlb(None) }
StepRoot(a, s) ==
    IF s.self.root # s.next.root
    THEN [s EXCEPT !.cpu = write_user_page_table(s.cpu, s.next.root),
                   !.installs = @ + 1,
                   !.flushes = @ + 1,
                   !.rd = @ \cup {RootField(a)},
                   !.log = Append(@, "root")]
    ELSE [s EXCEPT !.rd = @ \cup {RootField(a)},
                   !.log = Append(@, "root")]

\* loongarch64: crate::asm::write_kernel_sp(next_ctx.sp)
StepKsp(a, s) ==
    [s EXCEPT !.cpu = write_kernel_sp(s.cpu, s.next.slot[SlotOf(a, "sp")]),
              !.rd = @ \cup {"sp"},
              !.log = Append(@, "ksp")]

StepUspace_ksp_on_root_change(a, s) ==
    IF a = "aarch64" THEN StepRoot(a, s)
    ELSE IF s.self.root # s.next.root THEN StepRoot(a, StepKsp(a, s))
         ELSE StepRoot(a, s)

\* #[cfg(feature = "uspace")] block
StepUspace(a, s) ==
    IF a = "aarch64" THEN StepRoot(a, s) ELSE StepRoot(a, StepKsp(a, s))

\* unsafe { context_switch(self, next_ctx) }
StepXfer(a, s) ==
    LET m == context_switch(a, s.cpu.gpr, s.self.slot, s.next.slot)
    IN  [s EXCEPT !.cpu.gpr = m.reg,
                  !.self.slot = m.mem.cur,
                  !.next.slot = m.mem.nxt,
                  !.rd = @ \cup {FieldAt(a, x[2]) : x \in {y \in m.rd : y[1] = "nxt"}},
                  !.xferPre = s.self,
                  !.wr = {FieldAt(a, x[2]) : x \in {y \in m.wr : y[1] = "cur"}},
                  !.log = Append(@, "xfer")]

\* aarch64 switch_to: tls, fp-simd, uspace, context_switch
switch_to_a64(f, s0) ==
    LET s1 == IF f.tls THEN StepTls("aarch64", s0) ELSE s0
        s2 == IF f.fp THEN StepFp("aarch64", s1) ELSE s1
        s3 == IF f.uspace THEN StepUspace("aarch64", s2) ELSE s2
    IN  StepXfer("aarch64", s3)

switch_to_la_fp_before_uspace(f, s0) ==
    LET s1 == IF f.tls THEN StepTls("loongarch64", s0) ELSE s0
        s2 == IF f.fp THEN StepFp("loongarch64", s1) ELSE s1
        s3 == IF f.uspace THEN StepUspace("loongarch64", s2) ELSE s2
    IN  StepXfer("loongarch64", s3)

\* loongarch64 switch_to: tls, uspace, fp-simd, context_switch
switch_to_la(f, s0) ==
    LET s1 == IF f.tls THEN StepTls("loongarch64", s0) ELSE s0
        s2 == IF f.uspace THEN StepUspace("loongarch64", s1) ELSE s1
        s3 == IF f.fp THEN StepFp("loongarch64", s2) ELSE s2
    IN  StepXfer("loongarch64", s3)

switch_to(a, f, c, self, next) ==
    IF a = "aarch64" THEN switch_to_a64(f, Call(c, self, next))
                     ELSE switch_to_la(f, Call(c, self, next))

(***************************************************************************)
(* Live register fillings: every register gets a value of its own.         *)
(***************************************************************************)
PatGpr(a, p) == [r \in Range(Gpr(a)) |-> (p + 1) * 100 + IndexOf(Gpr(a), r)]
PatFx(a, p) ==
    IF a = "aarch64"
    THEN [v |-> [i \in VIdx |-> (p + 1) * 100 + 20 + i],
          fpcr |-> (p + 1) * 100 + 60, fpsr |-> (p + 1) * 100 + 61]
    ELSE [v |-> [i \in VIdx |-> (p + 1) * 100 + 20 + i],
          fcc |-> [i \in FccIdx |-> (p + i) % 2],
          fcsr |-> (p + 1) * 100 + 62]
PatTp(p) == (p + 1) * 100 + 70
\* the running task's code leaves filling p in the registers it may write
Fill(a, c, p) == [c EXCEPT !.gpr = PatGpr(a, p), !.fx = PatFx(a, p), !.tp = PatTp(p)]
LiveCpu(a, p) ==
    [gpr |-> PatGpr(a, p), fx |-> PatFx(a, p), tp |-> PatTp(p), root |-> 0, ksp |-> 0]

\* values the uninitialised padding bytes of a fresh aarch64 FpState may hold
PadVals(a, f) == IF a = "aarch64" /\ f.fp THEN {0, 9} ELSE {0}

(***************************************************************************)
(* State machine of the task-switching scenario.                           *)
(*   cur    the context of the code now executing                          *)
(*   life   "new" (zeroed), "init" (init called, never run), "boot" (the    *)
(*          zeroed context of the bootstrap task, never switched from),    *)
(*          "run" (has taken part in a switch)                             *)
(*   args   the arguments init was called with                             *)
(*   snap   per context, the live CPU when it last called switch_to, the   *)
(*          context it switched to, and the context as that call left it   *)
(*   last   what the last operation was and what it did                    *)
(*   hist   whether a switch has happened, the sp field the running        *)
(*          context held when it was last switched into, and (in the       *)
(*          address-space scenario) whether set_page_table_root was ever   *)
(*          called on the running context                                  *)
(***************************************************************************)
NoArgs == [entry |-> 0, kstack_top |-> 0, tls_area |-> 0]
LastNone ==
    [op |-> "none", self |-> 0, next |-> 0, first |-> FALSE, pre |-> <<>>,
     preSelf |-> <<>>, preNext |-> <<>>, log |-> <<>>, installs |-> 0, flushes |-> 0, rd |-> {},
     xferPre |-> <<>>, wr |-> {}]
SnapNone == [to |-> 0, cpu |-> <<>>, after |-> <<>>]

TfNone == <<>>
RetNone == [op |-> "none", n |-> 0, val |-> 0, before |-> <<>>]
FpgNone == [op |-> "none", pre |-> <<>>, saved |-> <<>>, have |-> FALSE]
HistNone == [rootOnRunning |-> FALSE, entered |-> FALSE, enteredSp |-> 0]

Init ==
    /\ arch \in Archs
    /\ feat \in Features
    /\ \E p \in Pats : cpu = LiveCpu(arch, p)
    /\ \E pad \in PadVals(arch, feat) : ctx = [c \in CtxIds |-> new(arch, pad)]
    /\ cur = 1
    /\ life = [c \in CtxIds |-> IF c = 1 THEN "boot" ELSE "new"]
    /\ args = [c \in CtxIds |-> NoArgs]
    /\ snap = [c \in CtxIds |-> SnapNone]
    /\ last = LastNone
    /\ tf = TfNone /\ ret = RetNone /\ fps = <<>> /\ fpg = FpgNone
    /\ hist = HistNone /\ cores = <<>> /\ bx = <<>>

\* the task-creation code calls c.init(entry, kstack_top, tls_area) once,
\* before the task's first run
TaskInit(c, entry, kstack_top, tls_area) ==
    /\ life[c] = "new"
    /\ c # cur
    /\ ctx' = [ctx EXCEPT ![c] = init(arch, ctx[c], entry, kstack_top, tls_area)]
    /\ life' = [life EXCEPT ![c] = "init"]
    /\ args' = [args EXCEPT ![c] =
                  [entry |-> entry, kstack_top |-> kstack_top, tls_area |-> tls_area]]
    /\ last' = [LastNone EXCEPT !.op = "init", !.self = c]
    /\ UNCHANGED <<arch, feat, cpu, cur, snap, tf, ret, fps, fpg, hist, cores, bx>>

\* the task-creation code calls c.set_page_table_root(root) before the
\* task's first switch (feature uspace)
SetPageTableRoot(c, root) ==
    /\ feat.uspace
    /\ life[c] \in {"init", "boot"}
    /\ ctx' = [ctx EXCEPT ![c] = set_page_table_root(ctx[c], root)]
    /\ last' = LastNone
    /\ UNCHANGED <<arch, feat, cpu, cur, life, args, snap, tf, ret, fps, fpg, hist, cores, bx>>

\* the running task's code changes the live registers
Run(p) ==
    /\ cpu' = Fill(arch, cpu, p)
    /\ cpu' # cpu
    /\ last' = LastNone
    /\ UNCHANGED <<arch, feat, ctx, cur, life, args, snap, tf, ret, fps, fpg, hist, cores, bx>>

\* the scheduler calls ctx[cur].switch_to(&ctx[n])
SwitchTo(n) ==
    /\ n # cur
    /\ life[n] # "new"
    /\ LET s == switch_to(arch, feat, cpu, ctx[cur], ctx[n])
       IN  /\ cpu' = s.cpu
           /\ ctx' = [ctx EXCEPT ![cur] = s.self, ![n] = s.next]
           /\ last' = [op |-> "switch", self |-> cur, next |-> n,
                       first |-> (life[n] = "init"), pre |-> cpu,
                       preSelf |-> ctx[cur], preNext |-> ctx[n],
                       log |-> s.log, installs |-> s.installs,
                       flushes |-> s.flushes, rd |-> s.rd,
                       xferPre |-> s.xferPre, wr |-> s.wr]
           /\ snap' = [snap EXCEPT ![cur] = [to |-> n, cpu |-> cpu, after |-> s.self]]
    /\ cur' = n
    /\ life' = [life EXCEPT ![n] = "run", ![cur] = "run"]
    /\ hist' = [hist EXCEPT !.entered = TRUE,
                            !.enteredSp = ctx[n].slot[SlotOf(arch, "sp")]]
    /\ UNCHANGED <<arch, feat, args, tf, ret, fps, fpg, cores, bx>>

\* init arguments of the created task in the switching scenario
ScenarioArgs == [entry |-> 11, kstack_top |-> 12, tls_area |-> 13]

Next ==
    \/ \E c \in CtxIds :
          TaskInit(c, ScenarioArgs.entry, ScenarioArgs.kstack_top, ScenarioArgs.tls_area)
    \/ \E c \in CtxIds, r \in Vals : SetPageTableRoot(c, r)
    \/ \E p \in Pats : Run(p)
    \/ \E n \in CtxIds : SwitchTo(n)

Spec == Init /\ [][Next]_vars

(***************************************************************************)
(* First run of a created task: init with every argument value, then the   *)
(* first switch into the context.                                          *)
(***************************************************************************)
FirstSwitch(n) == life[n] = "init" /\ SwitchTo(n)

NextFirstRun ==
    \/ \E c \in CtxIds, e \in Vals, k \in Vals, t \in Vals : TaskInit(c, e, k, t)
    \/ \E c \in CtxIds, r \in Vals : SetPageTableRoot(c, r)
    \/ \E n \in CtxIds : FirstSwitch(n)

SpecFirstRun == Init /\ [][NextFirstRun]_vars

(***************************************************************************)
(* Address-space scenario (feature uspace): set_page_table_root may be     *)
(* called on any context at any time between switches.                     *)
(***************************************************************************)
InitRoot == Init /\ feat.uspace /\ cpu = LiveCpu(arch, 0)

\* some code calls c.set_page_table_root(root)
SetRoot(c, root) ==
    /\ feat.uspace
    /\ life[c] # "new"
    /\ ctx' = [ctx EXCEPT ![c] = set_page_table_root(ctx[c], root)]
    /\ last' = LastNone
    /\ hist' = [hist EXCEPT !.rootOnRunning = @ \/ (c = cur)]
    /\ UNCHANGED <<arch, feat, cpu, cur, life, args, snap, tf, ret, fps, fpg, cores, bx>>

NextRoot ==
    \/ \E c \in CtxIds :
          TaskInit(c, ScenarioArgs.entry, ScenarioArgs.kstack_top, ScenarioArgs.tls_area)
    \/ \E c \in CtxIds, r \in Vals : SetRoot(c, r)
    \/ \E n \in CtxIds : SwitchTo(n)

SpecRoot == InitRoot /\ [][NextRoot]_vars

(***************************************************************************)
(* Properties of switch_to and context_switch.                             *)
(***************************************************************************)
Switched == last.op = "switch"
TpSlot == SlotOf(arch, TpField(arch))
\* fields of the callee-saved general registers other than ra and sp
CalleeFields(a) ==
    Range(Layout(a)) \ {"sp", RaField(a), TpField(a)}
\* live callee-saved general registers other than ra and sp
CalleeRegs(a) == Range(Gpr(a)) \ {"sp", RaReg(a)}

\* the switch just made is the return leg B.switch_to(&A) of a round trip whose
\* first leg was A.switch_to(&B), and A was not modified in between
RoundTrip ==
    /\ Switched
    /\ snap[last.next].to = last.self
    /\ snap[last.next].after = last.preNext

\* C1: after A.switch_to(&B) and then B.switch_to(&A), with A unmodified in
\* between, every live callee-saved general register and the stack pointer,
\* and with the features enabled the extended register file and the thread
\* pointer, equal their values when A.switch_to(&B) was called.
C1_RoundTripIdentity ==
    RoundTrip =>
        LET old == snap[last.next].cpu
        IN  /\ cpu.gpr = old.gpr
            /\ feat.fp => cpu.fx = old.fx
            /\ feat.tls => cpu.tp = old.tp

\* C3: with thread-pointer tracking enabled, after switch_to(self, next) the
\* thread-pointer field of self holds the live thread pointer of the time of
\* the call, and the live thread pointer holds next's stored value.
C3_ThreadPointerSwitch ==
    (Switched /\ feat.tls) =>
        /\ ctx[last.self].slot[TpSlot] = last.pre.tp
        /\ cpu.tp = last.preNext.slot[TpSlot]

\* C4: with address-space isolation enabled, a switch between equal stored
\* roots installs no root and flushes nothing; a switch between differing
\* stored roots installs next's root exactly once and flushes the TLB exactly once.
C4_RootChangeOneFlush ==
    (Switched /\ feat.uspace) =>
        IF last.preSelf.root = last.preNext.root
        THEN last.installs = 0 /\ last.flushes = 0 /\ cpu.root = last.pre.root
        ELSE last.installs = 1 /\ last.flushes = 1 /\ cpu.root = last.preNext.root

C4_Witness ==
    /\ Switched /\ feat.uspace
    /\ last.preSelf.root # last.preNext.root
    /\ last.installs = 1
    /\ cpu.root # last.pre.root

\* position of step x in a log (0 when absent)
Pos(log, x) == IF \E i \in 1..Len(log) : log[i] = x
               THEN CHOOSE i \in 1..Len(log) : log[i] = x ELSE 0
Before(log, x, y) == (Pos(log, x) > 0 /\ Pos(log, y) > 0) => Pos(log, x) < Pos(log, y)

\* C5 as claimed: on every backend the steps of switch_to come in the order
\* thread pointer, extended registers, address-space root, raw transfer.
C5_OneFixedOrder ==
    Switched =>
        /\ Before(last.log, "tls", "fp")
        /\ Before(last.log, "tls", "root")
        /\ Before(last.log, "fp", "root")
        /\ Before(last.log, "tls", "xfer")
        /\ Before(last.log, "fp", "xfer")
        /\ Before(last.log, "root", "xfer")

StepEnabled(f, x) ==
    CASE x = "tls" -> f.tls
      [] x = "fp" -> f.fp
      [] x \in {"ksp", "root"} -> f.uspace
      [] x = "xfer" -> TRUE
OrderOf(a) == IF a = "aarch64" THEN <<"tls", "fp", "root", "xfer">>
                               ELSE <<"tls", "ksp", "root", "fp", "xfer">>
RECURSIVE Keep(_, _, _)
Keep(f, seq, i) ==
    IF i > Len(seq) THEN <<>>
    ELSE (IF StepEnabled(f, seq[i]) THEN <<seq[i]>> ELSE <<>>) \o Keep(f, seq, i + 1)

\* C5 amended: the order is fixed per backend, thread pointer first and raw
\* transfer last on both; aarch64 does extended registers then root,
\* loongarch64 does kernel-sp write and root, then extended registers.
C5_OrderPerBackend ==
    Switched => last.log = Keep(feat, OrderOf(arch), 1)

C5_Witness ==
    /\ Switched /\ arch = "loongarch64"
    /\ feat.tls /\ feat.fp /\ feat.uspace
    /\ Pos(last.log, "root") < Pos(last.log, "fp")

\* C10: switch_to(self, next) leaves every field of next as it was.
C10_NextReadOnly ==
    Switched => ctx[last.next] = last.preNext

C10_Witness ==
    /\ Switched
    /\ feat.tls /\ feat.fp /\ feat.uspace
    /\ ctx[last.self] # last.preSelf
    /\ ctx[last.next] = last.preNext
    /\ last.preNext # last.preSelf

\* C11: the raw transfer context_switch(current, next) stores, in the save
\* target, only to the sp, ra and callee-saved general-register fields; the
\* save target's thread-pointer field, root field and extended-state block
\* have the same values after the raw transfer as before it (both backends).
C11_RawTransferFrame ==
    Switched =>
        /\ last.wr \subseteq ({"sp", RaField(arch)} \cup CalleeFields(arch))
        /\ ctx[last.self].slot[TpSlot] = last.xferPre.slot[TpSlot]
        /\ ctx[last.self].root = last.xferPre.root
        /\ ctx[last.self].ext = last.xferPre.ext

\* C13: with feature uspace, after any sequence of switch_to calls the live
\* address-space root equals the stored root of the running context, provided
\* this held before the first switch and set_page_table_root is only ever
\* called on contexts that are not running.
C13_LiveRootTracksRunning ==
    (feat.uspace /\ ~hist.rootOnRunning) => cpu.root = ctx[cur].root

\* a switch between equal stored roots, made after roots were installed and
\* changed, that installs nothing and leaves the live root right
C13_Witness ==
    /\ feat.uspace /\ ~hist.rootOnRunning
    /\ Switched /\ last.installs = 0
    /\ last.preSelf.root # 0
    /\ cpu.root = ctx[cur].root

\* C15: on loongarch64 with feature uspace, every switch_to(self, next) writes
\* next's stored sp field to the kernel-stack-pointer register exactly once,
\* before the root comparison and before the raw transfer, whether or not the
\* stored roots differ; so after any sequence of switches the register holds
\* the sp field the running context had when it was last switched into.
C15_KernelSpFollowsRunning ==
    (arch = "loongarch64" /\ feat.uspace) =>
        /\ Switched =>
              /\ Cardinality({i \in 1..Len(last.log) : last.log[i] = "ksp"}) = 1
              /\ Pos(last.log, "ksp") < Pos(last.log, "root")
              /\ Pos(last.log, "ksp") < Pos(last.log, "xfer")
              /\ cpu.ksp = last.preNext.slot[SlotOf(arch, "sp")]
        /\ hist.entered => cpu.ksp = hist.enteredSp

\* a switch between equal stored roots that changed the register
C15_Witness ==
    /\ arch = "loongarch64" /\ feat.uspace
    /\ Switched
    /\ last.preSelf.root = last.preNext.root
    /\ last.installs = 0
    /\ cpu.ksp = last.preNext.slot[SlotOf(arch, "sp")]
    /\ cpu.ksp # last.pre.ksp
    /\ hist.enteredSp = cpu.ksp

(***************************************************************************)
(* Properties of init and of the first switch into an init-ed context.     *)
(***************************************************************************)
FirstSwitched == Switched /\ last.first

\* C2: when B.switch_to(&A) returns for a context A that was zero-constructed
\* and init-ed, the live return-address register equals entry and the live
\* stack pointer equals stack_top.
C2_FirstRunEntryAndStack ==
    FirstSwitched =>
        /\ cpu.gpr[RaReg(arch)] = args[last.next].entry
        /\ cpu.gpr["sp"] = args[last.next].kstack_top

C2_Witness ==
    /\ FirstSwitched
    /\ args[last.next].entry # args[last.next].kstack_top
    /\ cpu.gpr[RaReg(arch)] # last.pre.gpr[RaReg(arch)]

\* C6 as claimed: the first switch into an init-ed context reads only its
\* return-address, stack-pointer and thread-pointer fields.
C6_ReadsOnlyRaSpTp ==
    FirstSwitched => last.rd \subseteq {RaField(arch), "sp", TpField(arch)}

\* C6 amended: the first switch into an init-ed context also reads every
\* callee-saved register field and, with the features enabled, the root field
\* and the extended-state block; the register fields it reads hold the zeros
\* of new(), so the live callee-saved registers other than ra and sp, and the
\* live extended data registers, become zero.
C6_FirstSwitchReadsZeros ==
    FirstSwitched =>
        /\ {RaField(arch), "sp"} \cup CalleeFields(arch) \subseteq last.rd
        /\ feat.tls => TpField(arch) \in last.rd
        /\ feat.uspace => RootField(arch) \in last.rd
        /\ feat.fp => FpField(arch) \in last.rd
        /\ \A r \in CalleeRegs(arch) : cpu.gpr[r] = 0
        /\ feat.fp => \A i \in VIdx : cpu.fx.v[i] = 0

C6_Witness ==
    /\ FirstSwitched
    /\ feat.fp /\ feat.uspace /\ feat.tls
    /\ \E r \in CalleeRegs(arch) : last.pre.gpr[r] # 0
    /\ \E i \in VIdx : last.pre.fx.v[i] # 0

\* the fields of the extended-state block (padding is not a field)
ExtFieldsZero(a, e) ==
    IF a = "aarch64"
    THEN (\A i \in VIdx : e.regs[i] = 0) /\ e.w[512] = 0 /\ e.w[516] = 0
    ELSE (\A i \in VIdx : e.fp[i] = 0) /\ (\A i \in FccIdx : e.fcc[i] = 0) /\ e.fcsr = 0

\* C7: after init(entry, stack_top, tls_area) on a context produced by new(),
\* the return-address field is entry, the stack-pointer field is stack_top,
\* the thread-pointer field is tls_area and every other field is zero.
C7_InitIsolatesFields ==
    last.op = "init" =>
        LET c == ctx[last.self]
            g == args[last.self]
        IN  /\ c.slot[SlotOf(arch, RaField(arch))] = g.entry
            /\ c.slot[SlotOf(arch, "sp")] = g.kstack_top
            /\ c.slot[TpSlot] = g.tls_area
            /\ \A f \in CalleeFields(arch) : c.slot[SlotOf(arch, f)] = 0
            /\ c.root = 0
            /\ ExtFieldsZero(arch, c.ext)

C7_Witness ==
    /\ last.op = "init"
    /\ args[last.self].entry = 1
    /\ args[last.self].kstack_top = 0
    /\ args[last.self].tls_area = 1

(***************************************************************************)
(* Extended-state save / restore on one state object S (fps).              *)
(*   fpg   what the last operation was, the live registers before it, and  *)
(*         the live registers at the time of the last save()               *)
(***************************************************************************)
FpOnly == [tls |-> FALSE, fp |-> TRUE, uspace |-> FALSE]

InitFp ==
    /\ arch \in Archs
    /\ feat = FpOnly
    /\ \E p \in Pats : cpu = LiveCpu(arch, p)
    /\ \E pad \in PadVals(arch, feat) : fps = ExtDefault(arch, pad)
    /\ fpg = FpgNone
    /\ ctx = [c \in CtxIds |-> new(arch, 0)]
    /\ cur = 1
    /\ life = [c \in CtxIds |-> IF c = 1 THEN "boot" ELSE "new"]
    /\ args = [c \in CtxIds |-> NoArgs]
    /\ snap = [c \in CtxIds |-> SnapNone]
    /\ last = LastNone
    /\ tf = TfNone /\ ret = RetNone
    /\ hist = HistNone /\ cores = <<>> /\ bx = <<>>

\* S.save()
FpSave ==
    /\ fps' = ext_save(arch, cpu.fx, fps)
    /\ fpg' = [op |-> "save", pre |-> cpu.fx, saved |-> cpu.fx, have |-> TRUE]
    /\ UNCHANGED <<arch, feat, cpu, ctx, cur, life, args, snap, last, tf, ret, hist, cores, bx>>

\* the live extended registers all zero
ZeroFx(a) ==
    IF a = "aarch64"
    THEN [v |-> [i \in VIdx |-> 0], fpcr |-> 0, fpsr |-> 0]
    ELSE [v |-> [i \in VIdx |-> 0], fcc |-> [i \in FccIdx |-> 0], fcsr |-> 0]

\* code running between save and restore overwrites the live extended registers
FpCorrupt(fx) ==
    /\ cpu.fx # fx
    /\ cpu' = [cpu EXCEPT !.fx = fx]
    /\ fpg' = [fpg EXCEPT !.op = "corrupt", !.pre = cpu.fx]
    /\ UNCHANGED <<arch, feat, ctx, cur, life, args, snap, last, tf, ret, fps, hist, cores, bx>>

\* S.restore()
FpRestore ==
    /\ cpu' = [cpu EXCEPT !.fx = ext_restore(arch, cpu.fx, fps)]
    /\ fpg' = [fpg EXCEPT !.op = "restore", !.pre = cpu.fx]
    /\ UNCHANGED <<arch, feat, ctx, cur, life, args, snap, last, tf, ret, fps, hist, cores, bx>>

NextFp ==
    \/ FpSave
    \/ \E p \in Pats : FpCorrupt(PatFx(arch, p))
    \/ FpCorrupt(ZeroFx(arch))
    \/ FpRestore

SpecFp == InitFp /\ [][NextFp]_vars

\* C8: save() on S, then any change of the live extended registers, then
\* S.restore() leaves every live extended register and control/status
\* register equal to its value at the time of save().
C8_SaveRestoreFidelity ==
    (fpg.op = "restore" /\ fpg.have) => cpu.fx = fpg.saved

C8_Witness ==
    /\ fpg.op = "restore" /\ fpg.have
    /\ fpg.pre # fpg.saved
    /\ cpu.fx = fpg.saved
    /\ cpu.fx # ZeroFx(arch)

\* C12: on aarch64, with regs at bytes 0..512, fpcr at 512..516 and fpsr at
\* 516..520 of FpState, save() stores the live FPCR in the fpcr field and the
\* live FPSR in the fpsr field, and restore() loads FPCR from the fpcr field
\* and FPSR from the fpsr field.
C12_ControlStatusFields ==
    arch = "aarch64" =>
        /\ fpg.op = "save" =>
              (fps.w[512] = cpu.fx.fpcr /\ fps.w[516] = cpu.fx.fpsr)
        /\ fpg.op = "restore" =>
              (cpu.fx.fpcr = fps.w[512] /\ cpu.fx.fpsr = fps.w[516])

(***************************************************************************)
(* TrapFrame argument accessors on frames filled by the trap-entry code.   *)
(*   ret   the last accessor call: its index, its result, the frame before *)
(***************************************************************************)
\* a frame with a value of its own in every field
PatTf(a, p) ==
    IF a = "aarch64"
    THEN [r |-> [i \in RIdx |-> (p + 1) * 100 + i],
          usp |-> (p + 1) * 100 + 40, elr |-> (p + 1) * 100 + 41,
          spsr |-> (p + 1) * 100 + 42]
    ELSE [regs |-> [x \in Range(GeneralRegisters) |->
                       (p + 1) * 100 + IndexOf(GeneralRegisters, x)],
          prmd |-> (p + 1) * 100 + 40, era |-> (p + 1) * 100 + 41]

\* the frame with one register overwritten
TfPoke(a, f, k, v) ==
    IF a = "aarch64" THEN [f EXCEPT !.r[k] = v]
                     ELSE [f EXCEPT !.regs[GeneralRegisters[k + 1]] = v]

InitTrap ==
    /\ arch \in Archs
    /\ \E p \in Pats : tf = PatTf(arch, p)
    /\ ret = RetNone
    /\ feat = [tls |-> FALSE, fp |-> FALSE, uspace |-> FALSE]
    /\ cpu = LiveCpu(arch, 0)
    /\ ctx = [c \in CtxIds |-> new(arch, 0)]
    /\ cur = 1
    /\ life = [c \in CtxIds |-> IF c = 1 THEN "boot" ELSE "new"]
    /\ args = [c \in CtxIds |-> NoArgs]
    /\ snap = [c \in CtxIds |-> SnapNone]
    /\ last = LastNone
    /\ fps = <<>> /\ fpg = FpgNone
    /\ hist = HistNone /\ cores = <<>> /\ bx = <<>>

\* the trap-entry code fills a frame: filling p with register k set to v
TrapEntry(p, k, v) ==
    /\ tf' = TfPoke(arch, PatTf(arch, p), k, v)
    /\ ret' = RetNone
    /\ UNCHANGED <<arch, feat, cpu, ctx, cur, life, args, snap, last, fps, fpg, hist, cores, bx>>

\* the dispatch code calls tf.argN()
ArgCall(n) ==
    /\ ret' = [op |-> "arg", n |-> n, val |-> argN(arch, n, tf), before |-> tf]
    /\ UNCHANGED <<arch, feat, cpu, ctx, cur, life, args, snap, last, fps, fpg, tf, hist, cores, bx>>

NextTrap ==
    \/ \E p \in Pats, k \in RIdx, v \in Vals : TrapEntry(p, k, v)
    \/ \E n \in 0..5 : ArgCall(n)

SpecTrap == InitTrap /\ [][NextTrap]_vars

\* the Nth argument register of the architecture
ArgReg(a, n, f) ==
    IF a = "aarch64" THEN f.r[n]
    ELSE f.regs[<<"a0", "a1", "a2", "a3", "a4", "a5">>[n + 1]]

\* C9: argN() returns exactly the value of the Nth argument register
\* (aarch64 r[N], loongarch64 aN) and leaves the frame unchanged.
C9_ArgAccessors ==
    ret.op = "arg" => (ret.val = ArgReg(arch, ret.n, tf) /\ tf = ret.before)

C9_Witness ==
    /\ ret.op = "arg" /\ ret.n = 3
    /\ arch = "aarch64"
    /\ tf.r[3] = 0 /\ tf.r[4] # 0
    /\ ret.val = 0


(***************************************************************************)
(* Two cores running context_switch concurrently.  The routine has no      *)
(* barrier and no dependency between its memory accesses, so its 8-byte    *)
(* stores become visible to the other core, and its 8-byte loads are       *)
(* satisfied, in any order; a store may still be pending when the routine  *)
(* has returned.  What is ordered is the data flow through the registers:  *)
(* which register's entry value each store writes and which slot each      *)
(* register holds at the ret.  Accesses to different memory locations do   *)
(* not influence each other, so the memory state is kept for one context X *)
(* (every choice) and, of its slots, those that a set of registers in      *)
(* focus (every choice of up to MaxFocus registers) passes through.        *)
(* The module has no cross-core synchronisation; the callers keep (a) a    *)
(* context the save target of at most one in-flight switch, (b) `current`  *)
(* the executing code's context, (c) no context current on two cores at    *)
(* once.  Each core makes one switch.                                      *)
(*   cores.X       the context whose memory is followed                    *)
(*   cores.focus   the registers in focus                                  *)
(*   cores.c[k]    core k: its current context, the switch in flight (fly, *)
(*                 nxt), whether it has begun its switch, the values of    *)
(*                 the registers in focus as the running code sees them    *)
(*                 (reg; <<>> once the core runs a context other than X    *)
(*                 that it switched into), its stores to X not yet visible *)
(*                 (sb), the registers whose load from X is not yet        *)
(*                 satisfied (ld), and whether it resumed X with register  *)
(*                 values other than those of X's most recent switch-out   *)
(*                 (bad)                                                   *)
(*   cores.mem     the slots of X                                          *)
(*   cores.saved   the contexts that hold a saved register set             *)
(*   cores.out     the registers at the start of X's most recent           *)
(*                 switch-out                                              *)
(*   cores.shared  whether two cores ever had the same current context     *)
(*   cores.overlap whether a switch began into X while X was current on    *)
(*                 another core, the target of another in-flight switch,   *)
(*                 or had stores of another core still pending             *)
(***************************************************************************)
MaxFocus == 2      \* registers in focus at once

CoreIds == {0, 1}
TaskIds == {1, 2, 3}

\* the slots of a zeroed context after a switch-out with registers gpr
SavedSlots(a, gpr) ==
    context_switch(a, gpr, [i \in Slots(a) |-> 0], [i \in Slots(a) |-> 0]).mem.cur

\* the routine run on names instead of values: afterwards slot i of `current`
\* holds <<"reg", r>> when the entry value of register r was stored there, and
\* register r holds <<"slot", i>> when its last load was from slot i of `next`
Flow(a) ==
    context_switch(a, [r \in Range(Gpr(a)) |-> <<"reg", r>>],
                   [i \in Slots(a) |-> <<"none", 0>>],
                   [i \in Slots(a) |-> <<"slot", i>>])

\* slots of `current` that receive the entry value of a register in R
StoreSlots(a, R) ==
    {i \in Slots(a) : Flow(a).mem.cur[i][1] = "reg" /\ Flow(a).mem.cur[i][2] \in R}
\* registers in R that the routine loads
Loaded(a, R) == {r \in R : Flow(a).reg[r][1] = "slot"}
\* slots of `next` the registers in R are loaded from
LoadSlots(a, R) == {Flow(a).reg[r][2] : r \in Loaded(a, R)}

InitCores ==
    /\ arch \in Archs
    /\ \E X \in TaskIds, R \in SUBSET Range(Gpr(arch)) :
          /\ R # {} /\ Cardinality(R) <= MaxFocus
          /\ cores = [X |-> X, focus |-> R,
                      c |-> [k \in CoreIds |->
                              [cur |-> k + 1, nxt |-> 0, fly |-> FALSE,
                               begun |-> FALSE,
                               reg |-> [r \in R |-> PatGpr(arch, k)[r]],
                               sb |-> {}, ld |-> {}, bad |-> FALSE]],
                      mem |-> [i \in StoreSlots(arch, R) \cup LoadSlots(arch, R) |->
                                IF X = 3 THEN SavedSlots(arch, PatGpr(arch, 2))[i]
                                         ELSE 0],
                      saved |-> {3},
                      out |-> [r \in R |-> IF X = 3 THEN PatGpr(arch, 2)[r] ELSE 0],
                      shared |-> FALSE, overlap |-> FALSE]
    /\ feat = [tls |-> FALSE, fp |-> FALSE, uspace |-> FALSE]
    /\ cpu = LiveCpu(arch, 0)
    /\ ctx = [c \in CtxIds |-> new(arch, 0)]
    /\ cur = 1
    /\ life = [c \in CtxIds |-> IF c = 1 THEN "boot" ELSE "new"]
    /\ args = [c \in CtxIds |-> NoArgs]
    /\ snap = [c \in CtxIds |-> SnapNone]
    /\ last = LastNone
    /\ tf = TfNone /\ ret = RetNone /\ fps = <<>> /\ fpg = FpgNone
    /\ hist = HistNone /\ bx = <<>>

\* core k calls context_switch(current, next) with next = n: its stores and
\* loads are now under way
CoreBegin(k, n) ==
    LET me == cores.c[k]
    IN  /\ ~me.fly
        /\ ~me.begun
        /\ n # me.cur
        /\ n \in cores.saved
        /\ cores' = [cores EXCEPT
                       !.c[k].nxt = n,
                       !.c[k].fly = TRUE,
                       !.c[k].begun = TRUE,
                       !.c[k].sb = IF me.cur = cores.X
                                   THEN {[slot |-> i,
                                          val |-> me.reg[Flow(arch).mem.cur[i][2]]] :
                                            i \in StoreSlots(arch, cores.focus)}
                                   ELSE {},
                       !.c[k].ld = IF n = cores.X THEN Loaded(arch, cores.focus)
                                   ELSE {},
                       !.saved = @ \cup {me.cur},
                       !.out = IF me.cur = cores.X THEN me.reg ELSE @,
                       !.overlap = @ \/ /\ n = cores.X
                                        /\ \E j \in CoreIds \ {k} :
                                              \/ cores.c[j].cur = n
                                              \/ cores.c[j].fly /\ cores.c[j].nxt = n
                                              \/ cores.c[j].sb # {}]
        /\ UNCHANGED <<arch, feat, cpu, ctx, cur, life, args, snap, last, tf, ret,
                       fps, fpg, hist, bx>>

\* one 8-byte store of core k to X becomes visible
CoreStore(k, e) ==
    /\ e \in cores.c[k].sb
    /\ cores' = [cores EXCEPT !.mem[e.slot] = e.val,
                              !.c[k].sb = @ \ {e}]
    /\ UNCHANGED <<arch, feat, cpu, ctx, cur, life, args, snap, last, tf, ret,
                   fps, fpg, hist, bx>>

\* the 8-byte load from X that gives register r its value at the ret is
\* satisfied
CoreLoad(k, r) ==
    LET me == cores.c[k]
    IN  /\ me.fly
        /\ r \in me.ld
        /\ cores' = [cores EXCEPT
                       !.c[k].reg[r] = cores.mem[Flow(arch).reg[r][2]],
                       !.c[k].ld = @ \ {r}]
        /\ UNCHANGED <<arch, feat, cpu, ctx, cur, life, args, snap, last, tf, ret,
                       fps, fpg, hist, bx>>

\* core k executes the final ret, all its loads satisfied: next becomes the
\* core's current context
CoreRet(k) ==
    LET me == cores.c[k]
    IN  /\ me.fly
        /\ me.ld = {}
        /\ cores' = [cores EXCEPT
                       !.c[k].cur = me.nxt,
                       !.c[k].nxt = 0,
                       !.c[k].fly = FALSE,
                       !.c[k].reg = IF me.nxt = cores.X THEN @ ELSE <<>>,
                       !.c[k].bad = @ \/ (me.nxt = cores.X /\ me.reg # cores.out),
                       !.shared = @ \/ \E j \in CoreIds \ {k} : cores.c[j].cur = me.nxt]
        /\ UNCHANGED <<arch, feat, cpu, ctx, cur, life, args, snap, last, tf, ret,
                       fps, fpg, hist, bx>>

NextCores ==
    \/ \E k \in CoreIds, n \in TaskIds : CoreBegin(k, n)
    \/ \E k \in CoreIds : \E e \in cores.c[k].sb : CoreStore(k, e)
    \/ \E k \in CoreIds : \E r \in cores.focus : CoreLoad(k, r)
    \/ \E k \in CoreIds : CoreRet(k)

SpecCores == InitCores /\ [][NextCores]_vars

\* C14: under the caller guarantees (a), (b), (c), with every register store
\* and load atomic, a switch into context X on one core never resumes X with
\* register values other than the complete set stored by X's most recent
\* switch-out, also when that switch-out is still in flight on another core.
C14_NoTornResume ==
    ~cores.shared => \A k \in CoreIds : ~cores.c[k].bad

\* C14 (amended): the same, provided in addition that no switch ever begins
\* into X while X is current on another core, the target of another in-flight
\* switch, or has stores of its switch-out not yet visible.
C14_NoTornResumeWhenExclusive ==
    ~cores.overlap => \A k \in CoreIds : ~cores.c[k].bad

\* core 1 has resumed the context core 0 started in, with the registers core 0
\* had when it switched out, and no switch into it overlapped
C14_Witness ==
    /\ ~cores.overlap
    /\ cores.X = 1
    /\ ~cores.c[1].fly /\ cores.c[1].cur = 1
    /\ cores.c[1].reg = cores.out
    /\ \A r \in cores.focus : cores.c[1].reg[r] = PatGpr(arch, 0)[r]

(***************************************************************************)
(* The aarch64 assembly routines executed one instruction at a time, with  *)
(* the bytes each instruction touches.                                     *)
(*   bx.routine  the routine being executed                                *)
(*   bx.pc       index of its next instruction                             *)
(*   bx.m        registers and the object(s) passed in x0 / x1             *)
(*   bx.acc      byte ranges [lo, hi) touched by the instruction just      *)
(*               executed                                                  *)
(***************************************************************************)
FpRoutines == {"fpstate_save", "fpstate_restore"}

FpProgOf(r) == IF r = "fpstate_save" THEN fpstate_save_prog ELSE fpstate_restore_prog

InitBytes ==
    /\ arch = "aarch64"
    /\ \E r \in FpRoutines \cup {"context_switch"}, p \in Pats, pad \in {0, 9} :
          bx = [routine |-> r, pc |-> 1, acc |-> {},
                m |-> CASE r = "fpstate_save" ->
                             FMachine(PatFx(arch, p), FpStateDefault(pad))
                        [] r = "fpstate_restore" ->
                             FMachine(PatFx(arch, p),
                                      fpstate_save(PatFx(arch, p + 1), FpStateDefault(pad)))
                        [] r = "context_switch" ->
                             [reg |-> PatGpr(arch, p),
                              mem |-> [cur |-> [i \in Slots(arch) |-> pad],
                                       nxt |-> SavedSlots(arch, PatGpr(arch, p + 1))],
                              rd |-> {}, wr |-> {}]]
    /\ feat = [tls |-> FALSE, fp |-> FALSE, uspace |-> FALSE]
    /\ cpu = LiveCpu(arch, 0)
    /\ ctx = [c \in CtxIds |-> new(arch, 0)]
    /\ cur = 1
    /\ life = [c \in CtxIds |-> IF c = 1 THEN "boot" ELSE "new"]
    /\ args = [c \in CtxIds |-> NoArgs]
    /\ snap = [c \in CtxIds |-> SnapNone]
    /\ last = LastNone
    /\ tf = TfNone /\ ret = RetNone /\ fps = <<>> /\ fpg = FpgNone
    /\ hist = HistNone /\ cores = <<>>

\* the next instruction of fpstate_save / fpstate_restore
FpInstr ==
    /\ bx.routine \in FpRoutines
    /\ bx.pc <= Len(FpProgOf(bx.routine))
    /\ LET ins == FpProgOf(bx.routine)[bx.pc]
       IN  bx' = [bx EXCEPT !.m = FExec(bx.m, ins), !.pc = @ + 1, !.acc = FAccess(ins)]
    /\ UNCHANGED <<arch, feat, cpu, ctx, cur, life, args, snap, last, tf, ret, fps,
                   fpg, hist, cores>>

\* the next instruction of context_switch
XferInstr ==
    /\ bx.routine = "context_switch"
    /\ bx.pc <= Len(context_switch_prog(arch))
    /\ LET ins == context_switch_prog(arch)[bx.pc]
       IN  bx' = [bx EXCEPT !.m = Exec(bx.m, ins), !.pc = @ + 1, !.acc = Access(ins)]
    /\ UNCHANGED <<arch, feat, cpu, ctx, cur, life, args, snap, last, tf, ret, fps,
                   fpg, hist, cores>>

NextBytes == FpInstr \/ XferInstr

SpecBytes == InitBytes /\ [][NextBytes]_vars

\* C16: on aarch64 every store of fpstate_save and every load of
\* fpstate_restore touches only bytes [offset, offset + width) inside
\* [0, size_of(FpState)) of the FpState it is given, and every store and load
\* of context_switch lies within the first 14 eight-byte slots of TaskContext.
C16_AccessesInBounds ==
    \A r \in bx.acc :
        /\ 0 <= r.lo /\ r.lo < r.hi
        /\ r.hi <= (IF r.obj = "FpState" THEN SizeOfFpState ELSE 14 * 8)

\* fpstate_save has just stored FPSR: the last 8 bytes of the object, beyond
\* the declared fields
C16_Witness ==
    /\ bx.routine = "fpstate_save"
    /\ \E r \in bx.acc : r.lo = 32 * 16 + 4 + 4 /\ r.hi = SizeOfFpState
    /\ bx.m.mem.w[520] = bx.m.fpsr

====
